---- MODULE Spec2Model ----
(***************************************************************************)
(* bedrock-dev-lib: the resolvers of Bedrock's data and assets locations   *)
(* (src/src/Locations.ts), the INI reader they use and the Windows package *)
(* query (src/src/Appx.ts).                                                *)
(*                                                                         *)
(* Strings are sequences of tokens.  A token is an indivisible piece of    *)
(* text: each of the characters the code looks at ("\n", ";", "[", "]",    *)
(* "=", "/", the decimal digits) is a token of its own, and every other    *)
(* token is a word containing none of these characters.  split,            *)
(* startsWith, endsWith, slice, parseInt and path.join are computed on     *)
(* that representation as the code computes them on characters.            *)
(***************************************************************************)
EXTENDS Integers, Sequences, FiniteSets, TLC

VARIABLES
    platform,    \* os.platform()
    op,          \* the public operation called: "data" or "assets"
    localAppData,\* process.env["LOCALAPPDATA"] (EnvAbsent when not set)
    fs,          \* the directories that exist
    files,       \* launcher root -> text of its versions/versions.ini, or NoFile
    pc,          \* position of the call
    candidates,  \* the list handed to checkExists (NotComputed before that)
    probed,      \* the paths handed to fs.existsSync or readFile so far
    exec,        \* what execFile handed to its callback (NoExec before that)
    appx,        \* the promise GetAppxPackage returned
    inv,         \* launcher root index -> promise of getAssetsLocation_mcpelauncher
    all,         \* the promise Promise.all returned
    outcome,     \* how the public call settled
    iniText,     \* Metadata Reader on its own: the text given to parseIni
    iniDoc,      \* ... and what parseIni returned
    iniPc

vars == <<platform, op, localAppData, fs, files, pc, candidates, probed, exec,
          appx, inv, all, outcome, iniText, iniDoc, iniPc>>

callVars == <<platform, op, localAppData, fs, files, pc, candidates, probed,
              exec, appx, inv, all, outcome>>

iniVars == <<iniText, iniDoc, iniPc>>

----------------------------------------------------------------------------
(* Strings *)

NL == "\n"

SEP == "/"

Digits == <<"0", "1", "2", "3", "4", "5", "6", "7", "8", "9">>

IsDigit(t) == \E d \in 1..10 : Digits[d] = t

DigitValue(t) == (CHOOSE d \in 1..10 : Digits[d] = t) - 1

\* The value JavaScript calls undefined.
UNDEF == <<"#undefined">>

\* Number.NaN.  No text of the model parses to a negative number.
NaN == -1

RECURSIVE SplitFrom(_, _, _, _)
SplitFrom(s, sep, i, cur) ==
    IF i > Len(s) THEN <<cur>>
    ELSE IF s[i] = sep THEN <<cur>> \o SplitFrom(s, sep, i + 1, <<>>)
    ELSE SplitFrom(s, sep, i + 1, Append(cur, s[i]))

\* String.prototype.split(sep)
Split(s, sep) == SplitFrom(s, sep, 1, <<>>)

\* String.prototype.split(sep, limit): the first `limit` pieces of the split.
SplitLimit(s, sep, limit) ==
    LET parts == Split(s, sep)
    IN  IF Len(parts) > limit THEN SubSeq(parts, 1, limit) ELSE parts

startsWith(s, t) == Len(s) > 0 /\ s[1] = t

endsWith(s, t) == Len(s) > 0 /\ s[Len(s)] = t

\* s.slice(1, -1)
SliceInner(s) == SubSeq(s, 2, Len(s) - 1)

RECURSIVE ToDecimal(_)
\* String(n) for an array index n >= 0
ToDecimal(n) ==
    IF n < 10 THEN <<Digits[n + 1]>>
    ELSE Append(ToDecimal(n \div 10), Digits[(n % 10) + 1])

RECURSIVE ParseDigits(_, _, _)
ParseDigits(s, i, acc) ==
    IF i > Len(s) \/ ~IsDigit(s[i]) THEN acc
    ELSE ParseDigits(s, i + 1, acc * 10 + DigitValue(s[i]))

\* Number.parseInt(s): the leading decimal digits of s, NaN when there are none
\* (undefined is converted to the string "undefined", which has none).
parseInt(s) ==
    IF s = UNDEF \/ Len(s) = 0 \/ ~IsDigit(s[1]) THEN NaN
    ELSE ParseDigits(s, 1, 0)

----------------------------------------------------------------------------
(* path.join *)

RECURSIVE Concat(_, _)
Concat(parts, i) ==
    IF i > Len(parts) THEN <<>>
    ELSE IF Len(parts[i]) = 0 THEN Concat(parts, i + 1)
    ELSE LET rest == Concat(parts, i + 1)
         IN  IF Len(rest) = 0 THEN parts[i] ELSE parts[i] \o <<SEP>> \o rest

RECURSIVE Normalize(_)
\* path.normalize, for paths without "." and ".." segments: runs of
\* separators collapse to one.
Normalize(p) ==
    IF Len(p) < 2 THEN p
    ELSE IF p[1] = SEP /\ p[2] = SEP THEN Normalize(Tail(p))
    ELSE <<p[1]>> \o Normalize(Tail(p))

\* path.join(...parts): zero-length parts are ignored, the rest are joined by
\* the separator and the result is normalized.
pathJoin(parts) == Normalize(Concat(parts, 1))

\* The directory a path names: a trailing separator does not matter.
DirOf(p) == IF Len(p) > 1 /\ p[Len(p)] = SEP THEN SubSeq(p, 1, Len(p) - 1) ELSE p

----------------------------------------------------------------------------
(* Map<string, V>: the entries in insertion order *)

EmptyMap == <<>>

MapHas(m, k) == \E i \in 1..Len(m) : m[i].key = k

\* Map.prototype.get: undefined for a key that is not there
MapGet(m, k) ==
    IF MapHas(m, k) THEN m[CHOOSE i \in 1..Len(m) : m[i].key = k].value ELSE UNDEF

\* Map.prototype.set: a key that is there keeps its place, a new one goes last
MapSet(m, k, v) ==
    IF MapHas(m, k)
    THEN [i \in 1..Len(m) |-> IF m[i].key = k THEN [key |-> k, value |-> v] ELSE m[i]]
    ELSE Append(m, [key |-> k, value |-> v])

\* [...m.values()]
MapValues(m) == [i \in 1..Len(m) |-> m[i].value]

MapKeys(m) == [i \in 1..Len(m) |-> m[i].key]

----------------------------------------------------------------------------
(* The INI reader *)

\* The section the loop of parseIni writes to: iniData.global, or the map
\* last stored in iniData.sections under `name`.
InGlobal == [global |-> TRUE, name |-> <<>>]

InSection(name) == [global |-> FALSE, name |-> name]

\* One turn of the loop of parseIni, `line` being the loop variable.
IniLoopBody(st, line) ==
    IF Len(line) = 0 \/ startsWith(line, ";") THEN st
    ELSE IF startsWith(line, "[") /\ endsWith(line, "]")
    THEN [doc |-> [st.doc EXCEPT !.sections =
                       MapSet(st.doc.sections, SliceInner(line), EmptyMap)],
          cur |-> InSection(SliceInner(line))]
    ELSE LET parts == SplitLimit(line, "=", 2)
             key   == parts[1]
             value == IF Len(parts) >= 2 THEN parts[2] ELSE UNDEF
         IN  IF st.cur.global
             THEN [st EXCEPT !.doc.global = MapSet(st.doc.global, key, value)]
             ELSE [st EXCEPT !.doc.sections =
                       MapSet(st.doc.sections, st.cur.name,
                              MapSet(MapGet(st.doc.sections, st.cur.name), key, value))]

\* What `for (const line in lines)` binds `line` to, turn by turn: the
\* enumerable property names of the array, which are its indices as strings.
ForInKeys(lines) == [i \in 1..Len(lines) |-> ToDecimal(i - 1)]

RECURSIVE IniLoop(_, _, _)
IniLoop(st, xs, i) ==
    IF i > Len(xs) THEN st ELSE IniLoop(IniLoopBody(st, xs[i]), xs, i + 1)

EmptyIni == [global |-> EmptyMap, sections |-> EmptyMap]

parseIni(data) ==
    IniLoop([doc |-> EmptyIni, cur |-> InGlobal], ForInKeys(Split(data, NL)), 1).doc

\* readFile failed: the file is missing or unreadable.
NoFile == <<"#ENOENT">>

----------------------------------------------------------------------------
(* Errors and promises *)

NoError == [kind |-> "none", detail |-> <<>>]

\* Locations.ts:45 and :115: the message names the platform and lists the
\* supported ones.
UnsupportedPlatformError(p, supported) ==
    [kind |-> "UnsupportedPlatform", detail |-> <<p, ":">> \o supported]

\* Locations.ts:59
MissingEnvironmentError == [kind |-> "MissingEnvironment", detail |-> <<"LOCALAPPDATA">>]

\* Locations.ts:15
NoCandidatesError == [kind |-> "NoCandidates", detail |-> <<>>]

\* Locations.ts:132: the message ends with e.message.
ExternalQueryError(e) ==
    [kind |-> "ExternalQueryFailed",
     detail |-> <<"The package details command returned the following error:", NL>>
                \o e.detail]

\* Locations.ts:210: Path: error.path, Code: error.code
MetadataUnreadableError(fsError) ==
    [kind |-> "MetadataUnreadable", detail |-> fsError.detail]

\* Locations.ts:224: Path: versionsIniPath
MetadataInvalidError(versionsIniPath) ==
    [kind |-> "MetadataInvalid", detail |-> versionsIniPath]

\* What the runtime throws on a property read of null/undefined, or on a
\* path.join argument that is not a string.
TypeError == [kind |-> "TypeError", detail |-> <<>>]

Pending == [state |-> "pending", value |-> <<>>, error |-> NoError]

Fulfilled(v) == [state |-> "fulfilled", value |-> v, error |-> NoError]

Rejected(e) == [state |-> "rejected", value |-> <<>>, error |-> e]

----------------------------------------------------------------------------
(* The environment *)

Platforms == {"win32", "darwin", "linux", "android", "freebsd"}

\* os.homedir()
HOME == <<"~">>

EnvAbsent == UNDEF

LocalAppDataValues == {EnvAbsent, <<>>, <<"C:/Users/u/AppData/Local">>}

\* fs.existsSync
existsSync(fsys, p) == DirOf(p) \in fsys

----------------------------------------------------------------------------
(* checkExists and the data resolver *)

Returned(v) == [ok |-> TRUE, value |-> v, error |-> NoError]

Thrown(e) == [ok |-> FALSE, value |-> <<>>, error |-> e]

\* checkExists without its throw.
checkExists_ReturnsEmpty(fsys, paths) ==
    Returned(SelectSeq(paths, LAMBDA p : existsSync(fsys, p)))

checkExists(fsys, paths) ==
    LET existingPaths == SelectSeq(paths, LAMBDA p : existsSync(fsys, p))
    IN  IF Len(existingPaths) = 0 THEN Thrown(NoCandidatesError)
        ELSE Returned(existingPaths)

getDataLocations_Windows(env) ==
    IF env # EnvAbsent /\ env # <<>>
    THEN Returned(<< pathJoin(<<env,
            <<"Packages/Microsoft.MinecraftUWP_8wekyb3d8bbwe/LocalState/games/com.mojang">> >>) >>)
    ELSE Thrown(MissingEnvironmentError)

getDataLocations_MacOS ==
    << pathJoin(<<HOME, <<"Library/Application Support/mcpelauncher/games/com.mojang">> >>) >>

\* The two linux candidates in the other order.
getDataLocations_Linux_Swapped ==
    << pathJoin(<<HOME, <<".var/app/io.mrarm.mcpelauncher/data/mcpelauncher/games/com.mojang">> >>),
       pathJoin(<<HOME, <<".local/share/mcpelauncher/games/com.mojang">> >>) >>

getDataLocations_Linux ==
    << pathJoin(<<HOME, <<".local/share/mcpelauncher/games/com.mojang">> >>),
       pathJoin(<<HOME, <<".var/app/io.mrarm.mcpelauncher/data/mcpelauncher/games/com.mojang">> >>) >>

getDataLocations_Android ==
    << <<SEP, "data/data/com.mojang.minecraftpe/games/com.mojang">>,
       <<SEP, "sdcard/games/com.mojang">> >>

DataSupported == <<"win32 (Windows)", "darwin (MacOS)", "linux", "android">>

\* The candidates of the platform's case of the switch of getDataLocations,
\* or what computing them throws; the default case throws.
dataCandidates(p, env) ==
    CASE p = "win32"   -> getDataLocations_Windows(env)
      [] p = "darwin"  -> Returned(getDataLocations_MacOS)
      [] p = "linux"   -> Returned(getDataLocations_Linux)
      [] p = "android" -> Returned(getDataLocations_Android)
      [] OTHER         -> Thrown(UnsupportedPlatformError(p, DataSupported))

----------------------------------------------------------------------------
(* The Version Selector *)

VERSION_CODE == <<"versionCode">>

VERSION_NAME == <<"versionName">>

parseVersionSection(section) ==
    [versionCode |-> parseInt(MapGet(section, VERSION_CODE)),
     versionName |->
        IF MapGet(section, VERSION_NAME) = UNDEF THEN <<>>
        ELSE MapGet(section, VERSION_NAME)]

\* versions[0] of an empty array
UndefinedVersion == [versionCode |-> NaN, versionName |-> UNDEF]

\* Locations.ts:213-215
validVersions(iniData) ==
    SelectSeq([i \in 1..Len(iniData.sections) |->
                   parseVersionSection(MapValues(iniData.sections)[i])],
              LAMBDA v : v.versionCode # NaN /\ v.versionName # <<>>)

RECURSIVE latestLoop(_, _, _)
latestLoop(maxVersion, versions, i) ==
    IF i > Len(versions) THEN maxVersion
    ELSE latestLoop(IF versions[i].versionCode > maxVersion.versionCode
                    THEN versions[i] ELSE maxVersion,
                    versions, i + 1)

\* Locations.ts:218-221
latestVersion(versions) ==
    latestLoop(IF Len(versions) = 0 THEN UndefinedVersion ELSE versions[1], versions, 1)

versionsIniPathOf(rootInstallPath) ==
    pathJoin(<<rootInstallPath, <<"versions/versions.ini">> >>)

\* Without the test of maxVersion: versionName is read of undefined.
versionResult_Unguarded(rootInstallPath, maxVersion) ==
    IF maxVersion = UndefinedVersion
    THEN Rejected(TypeError)
    ELSE Fulfilled(pathJoin(<<rootInstallPath, <<"versions">>,
                              maxVersion.versionName, <<"assets">> >>))

\* Locations.ts:223-228
versionResult(rootInstallPath, maxVersion) ==
    IF maxVersion = UndefinedVersion
    THEN Rejected(MetadataInvalidError(versionsIniPathOf(rootInstallPath)))
    ELSE Fulfilled(pathJoin(<<rootInstallPath, <<"versions">>,
                              maxVersion.versionName, <<"assets">> >>))

\* getAssetsLocation_mcpelauncher from the point where readIni settles:
\* `text` is the file's text, or NoFile when readFile rejected.
mcpelauncherResult(rootInstallPath, text) ==
    IF text = NoFile
    THEN Rejected(MetadataUnreadableError(
             [kind |-> "ENOENT",
              detail |-> versionsIniPathOf(rootInstallPath) \o <<"ENOENT">>]))
    ELSE versionResult(rootInstallPath, latestVersion(validVersions(parseIni(text))))

----------------------------------------------------------------------------
(* The package query (Appx.ts) *)

\* The texts powershell may print on stdout.
OutEmpty == <<>>

OutBanner == <<"Windows PowerShell">>

OutNull == <<"null">>

OutNumber == <<"4", "2">>

OutNoLocation == <<"{", "\"Name\":", "\"Microsoft.MinecraftUWP\"", "}">>

InstallDir == <<"C:/Program Files/WindowsApps/Microsoft.MinecraftUWP_1.0_x64__8wekyb3d8bbwe">>

OutPackage ==
    <<"{", "\"Name\":", "\"Microsoft.MinecraftUWP\"", ",",
      "\"InstallLocation\":", InstallDir[1], "}">>

OutArray == <<"[">> \o OutPackage \o <<",">> \o OutPackage \o <<"]">>

Stdouts == {OutEmpty, OutBanner, OutNull, OutNumber, OutNoLocation, OutPackage, OutArray}

Stderrs == {<<>>, <<"Get-AppxPackage : Access is denied.">>}

\* The `error` execFile hands to its callback: null, or an Error whose
\* message tells a failed launch, an error exit or the kill at the timeout.
NoExecError == NoError

ExecErrors ==
    {NoExecError,
     [kind |-> "Error", detail |-> <<"spawn powershell.exe ENOENT">>],
     [kind |-> "Error", detail |-> <<"Command failed: powershell.exe", "exit 1">>],
     [kind |-> "Error", detail |-> <<"Command failed: powershell.exe", "killed SIGTERM">>]}

ExecResults == [error : ExecErrors, stdout : Stdouts, stderr : Stderrs]

NoExec == [error |-> NoExecError, stdout |-> <<"#none">>, stderr |-> <<"#none">>]

\* JSON values, as far as the code reads them: the type, and for an object
\* its InstallLocation member (undefined when it has none).
JsonNull == [type |-> "null", InstallLocation |-> UNDEF]

JsonNumber == [type |-> "number", InstallLocation |-> UNDEF]

JsonArray == [type |-> "array", InstallLocation |-> UNDEF]

JsonObject(text) ==
    [type |-> "object",
     InstallLocation |->
        IF \E i \in 1..(Len(text) - 1) : text[i] = "\"InstallLocation\":"
        THEN <<text[(CHOOSE i \in 1..(Len(text) - 1) : text[i] = "\"InstallLocation\":") + 1]>>
        ELSE UNDEF]

SyntaxError(msg) == [kind |-> "SyntaxError", detail |-> msg]

\* JSON.parse, on the texts of Stdouts.
JSONparse(text) ==
    IF Len(text) = 0 THEN Thrown(SyntaxError(<<"Unexpected end of JSON input">>))
    ELSE IF text = <<"null">> THEN Returned(JsonNull)
    ELSE IF \A i \in 1..Len(text) : IsDigit(text[i]) THEN Returned(JsonNumber)
    ELSE IF startsWith(text, "[") /\ endsWith(text, "]") THEN Returned(JsonArray)
    ELSE IF startsWith(text, "{") /\ endsWith(text, "}") THEN Returned(JsonObject(text))
    ELSE Thrown(SyntaxError(<<"Unexpected token", text[1]>>))

\* The promise of GetAppxPackage with the calls of resolve and reject counted.
AppxIdle == [promise |-> Pending, resolves |-> 0, rejects |-> 0]

\* The first call of resolve or reject settles a promise, later ones do nothing.
resolve(a, v) ==
    [promise  |-> IF a.promise.state = "pending" THEN Fulfilled(v) ELSE a.promise,
     resolves |-> a.resolves + 1,
     rejects  |-> a.rejects]

reject(a, e) ==
    [promise  |-> IF a.promise.state = "pending" THEN Rejected(e) ELSE a.promise,
     resolves |-> a.resolves,
     rejects  |-> a.rejects + 1]

\* The callback without its stderr branch.
execFileCallback_IgnoresStderr(a, r) ==
    IF r.error # NoExecError THEN reject(a, r.error)
    ELSE IF JSONparse(r.stdout).ok THEN resolve(a, JSONparse(r.stdout).value)
    ELSE reject(a, JSONparse(r.stdout).error)

\* The callback given to execFile (Appx.ts:92-107).
execFileCallback(a, r) ==
    IF r.error # NoExecError THEN reject(a, r.error)
    ELSE IF Len(r.stderr) > 0 THEN reject(a, [kind |-> "Error", detail |-> r.stderr])
    ELSE IF JSONparse(r.stdout).ok THEN resolve(a, JSONparse(r.stdout).value)
    ELSE reject(a, JSONparse(r.stdout).error)

\* getAssetsLocations_Windows from the point where GetAppxPackage settles:
\* the candidates it returns, or what it throws.
assetsLocations_Windows(promise) ==
    IF promise.state = "rejected" THEN Thrown(ExternalQueryError(promise.error))
    ELSE IF promise.value.type = "null" THEN Thrown(TypeError)
    ELSE IF promise.value.InstallLocation = UNDEF THEN Thrown(TypeError)
    ELSE Returned(<< pathJoin(<<promise.value.InstallLocation, <<"data">> >>) >>)

----------------------------------------------------------------------------
(* The launcher roots and Promise.all *)

mcpeLauncherPaths_MacOS ==
    << pathJoin(<<HOME, <<"Library/Application Support/mcpelauncher", SEP>> >>) >>

mcpeLauncherPaths_Linux ==
    << pathJoin(<<HOME, <<".local/share/mcpelauncher">> >>),
       pathJoin(<<HOME, <<".var/app/io.mrarm.mcpelauncher/data/mcpelauncher">> >>) >>

AssetsSupported == <<"win32 (Windows)", "darwin (MacOS)", "linux">>

\* The switch of getAssetsLocations with the cases of getDataLocations.
assetsCase_WithAndroid(p) ==
    IF p = "win32" THEN "windows"
    ELSE IF p \in {"darwin", "linux", "android"} THEN "launcher"
    ELSE "default"

\* The case of the switch of getAssetsLocations (Locations.ts:110-116).
assetsCase(p) ==
    IF p = "win32" THEN "windows"
    ELSE IF p \in {"darwin", "linux"} THEN "launcher"
    ELSE "default"

mcpeLauncherPaths(p) ==
    CASE p = "darwin" -> mcpeLauncherPaths_MacOS
      [] p = "linux"  -> mcpeLauncherPaths_Linux
      [] OTHER        -> <<>>

\* A gathering that waits for every promise and keeps the fulfilled ones.
promiseAll_SkipsRejected(a, promises, i) ==
    IF a.state # "pending" THEN a
    ELSE IF \A j \in 1..Len(promises) : promises[j].state \in {"fulfilled", "rejected"}
    THEN Fulfilled([j \in 1..Len(SelectSeq(promises, LAMBDA q : q.state = "fulfilled")) |->
                       SelectSeq(promises, LAMBDA q : q.state = "fulfilled")[j].value])
    ELSE a

\* Promise.all(promises), at the moment promises[i] settles (for an empty
\* array: at the call, i = 0).  `a` is the promise Promise.all returned.
promiseAll(a, promises, i) ==
    IF a.state # "pending" THEN a
    ELSE IF i > 0 /\ promises[i].state = "rejected" THEN Rejected(promises[i].error)
    ELSE IF \A j \in 1..Len(promises) : promises[j].state = "fulfilled"
    THEN Fulfilled([j \in 1..Len(promises) |-> promises[j].value])
    ELSE a

----------------------------------------------------------------------------
(* The states a call starts in *)

Range(s) == {s[i] : i \in 1..Len(s)}

NoPromise == [state |-> "none", value |-> <<>>, error |-> NoError]

NotComputed == << <<"#none">> >>

Settle(r) == IF r.ok THEN Fulfilled(r.value) ELSE Rejected(r.error)

\* The version directories a launcher's versions.ini may name.
VersionNames == {<<"x">>, <<"y">>}

AssetsDir(root, name) == pathJoin(<<root, <<"versions">>, name, <<"assets">> >>)

\* Texts of versions.ini.
IniTwoVersions ==
    <<"[", "a", "]", NL, "versionCode", "=", "1", NL, "versionName", "=", "x", NL,
      "[", "b", "]", NL, "versionCode", "=", "2", NL, "versionName", "=", "y", NL>>

IniTie ==
    <<"[", "a", "]", NL, "versionCode", "=", "2", NL, "versionName", "=", "y", NL,
      "[", "b", "]", NL, "versionCode", "=", "2", NL, "versionName", "=", "x", NL>>

IniNamelessLatest ==
    <<"versionCode", "=", "9", NL, "versionName", "=", "y", NL,
      "[", "a", "]", NL, "versionCode", "=", "1", NL, "versionName", "=", "x", NL,
      "[", "b", "]", NL, "versionCode", "=", "2", NL, "versionName", "=", NL>>

IniNoValidVersion ==
    <<"[", "a", "]", NL, "versionCode", "=", "beta", NL, "versionName", "=", "x", NL,
      "[", "b", "]", NL, "versionName", "=", "y", NL>>

IniCommentsOnly == <<";", " mcpelauncher versions", NL, NL>>

VersionFiles == {IniTwoVersions, IniTie, IniNamelessLatest, IniNoValidVersion,
                 IniCommentsOnly, <<>>}

\* The launcher roots a call on platform p may look at (those of linux for
\* a platform the assets resolver does not know).
LauncherRoots(p) ==
    IF p = "win32" THEN {}
    ELSE IF p = "darwin" THEN {DirOf(r) : r \in Range(mcpeLauncherPaths_MacOS)}
    ELSE {DirOf(r) : r \in Range(mcpeLauncherPaths_Linux)}

\* The directories whose existence a call may depend on.
DataPaths(env) ==
    (IF getDataLocations_Windows(env).ok
     THEN Range(getDataLocations_Windows(env).value) ELSE {})
    \cup Range(getDataLocations_MacOS) \cup Range(getDataLocations_Linux)
    \cup Range(getDataLocations_Android)

AssetsPaths(p) ==
    IF p = "win32" THEN {pathJoin(<<InstallDir, <<"data">> >>)}
    ELSE LauncherRoots(p)
         \cup {AssetsDir(r, n) : r \in LauncherRoots(p), n \in VersionNames}

\* A directory below a launcher root exists only if the root does.
FsStates(p, o, env) ==
    IF o = "data" THEN SUBSET DataPaths(env)
    ELSE {f \in SUBSET AssetsPaths(p) :
            \A r \in LauncherRoots(p), n \in VersionNames :
                AssetsDir(r, n) \in f => r \in f}

\* versions.ini can be read only below a root that exists.
FileStates(p, o, f) ==
    IF o = "data" THEN {[r \in {} |-> NoFile]}
    ELSE {fl \in [LauncherRoots(p) -> VersionFiles \cup {NoFile}] :
            \A r \in LauncherRoots(p) : r \notin f => fl[r] = NoFile}

IniOff == iniText = <<>> /\ iniDoc = EmptyIni /\ iniPc = "off"

Init ==
    /\ platform \in Platforms
    /\ op \in {"data", "assets"}
    /\ localAppData \in (IF platform = "win32" THEN LocalAppDataValues ELSE {EnvAbsent})
    /\ fs \in FsStates(platform, op, localAppData)
    /\ files \in FileStates(platform, op, fs)
    /\ pc = "start"
    /\ candidates = NotComputed
    /\ probed = {}
    /\ exec = NoExec
    /\ appx = [promise |-> NoPromise, resolves |-> 0, rejects |-> 0]
    /\ inv = <<>>
    /\ all = NoPromise
    /\ outcome = Pending
    /\ IniOff

----------------------------------------------------------------------------
(* The calls *)

\* getDataLocations: no await, the call runs to its end in one step.
GetDataLocations ==
    /\ pc = "start" /\ op = "data"
    /\ LET c == dataCandidates(platform, localAppData)
       IN  /\ candidates' = IF c.ok THEN c.value ELSE candidates
           /\ probed' = IF c.ok THEN probed \cup Range(c.value) ELSE probed
           /\ outcome' = IF c.ok THEN Settle(checkExists(fs, c.value)) ELSE Settle(c)
    /\ pc' = "done"
    /\ UNCHANGED <<platform, op, localAppData, fs, files, exec, appx, inv, all>>
    /\ UNCHANGED iniVars

promisesOf(invocations) == [i \in 1..Len(invocations) |-> invocations[i].promise]

\* getAssetsLocations up to its first await: execFile is started (win32), or
\* the roots are filtered and every invocation of
\* getAssetsLocation_mcpelauncher runs up to its await of readIni (darwin,
\* linux), or the default case throws.
GetAssetsLocations ==
    /\ pc = "start" /\ op = "assets"
    /\ IF assetsCase(platform) = "windows"
       THEN /\ appx' = AppxIdle
            /\ pc' = "awaitAppx"
            /\ UNCHANGED <<probed, inv, all, outcome>>
       ELSE IF assetsCase(platform) = "launcher"
       THEN LET existingPaths == SelectSeq(mcpeLauncherPaths(platform),
                                           LAMBDA r : existsSync(fs, r))
            IN  /\ probed' = probed \cup Range(mcpeLauncherPaths(platform))
                        \cup {versionsIniPathOf(r) : r \in Range(existingPaths)}
                /\ inv' = [i \in 1..Len(existingPaths) |->
                              [root |-> existingPaths[i], promise |-> Pending]]
                /\ all' = promiseAll(Pending, promisesOf(inv'), 0)
                /\ pc' = "awaitAll"
                /\ UNCHANGED <<appx, outcome>>
       ELSE /\ outcome' = Rejected(UnsupportedPlatformError(platform, AssetsSupported))
            /\ pc' = "done"
            /\ UNCHANGED <<probed, appx, inv, all>>
    /\ UNCHANGED <<platform, op, localAppData, fs, files, candidates, exec>>
    /\ UNCHANGED iniVars

\* powershell ends, or is killed at the timeout: execFile calls its callback.
ExecFileCallback ==
    /\ pc = "awaitAppx" /\ exec = NoExec
    /\ \E r \in ExecResults :
          /\ exec' = r
          /\ appx' = execFileCallback(appx, r)
    /\ UNCHANGED <<platform, op, localAppData, fs, files, pc, candidates, probed,
                   inv, all, outcome>>
    /\ UNCHANGED iniVars

\* getAssetsLocations_Windows goes on after its await, then checkExists.
ResumeWindows ==
    /\ pc = "awaitAppx" /\ appx.promise.state \in {"fulfilled", "rejected"}
    /\ LET c == assetsLocations_Windows(appx.promise)
       IN  /\ candidates' = IF c.ok THEN c.value ELSE candidates
           /\ probed' = IF c.ok THEN probed \cup Range(c.value) ELSE probed
           /\ outcome' = IF c.ok THEN Settle(checkExists(fs, c.value)) ELSE Settle(c)
    /\ pc' = "done"
    /\ UNCHANGED <<platform, op, localAppData, fs, files, exec, appx, inv, all>>
    /\ UNCHANGED iniVars

\* readFile of one root's versions.ini ends: that invocation of
\* getAssetsLocation_mcpelauncher runs to its end, and Promise.all reacts.
ReadIniSettles(i) ==
    /\ pc \in {"awaitAll", "done"}
    /\ inv[i].promise.state = "pending"
    /\ inv' = [inv EXCEPT ![i].promise =
                  mcpelauncherResult(inv[i].root, files[DirOf(inv[i].root)])]
    /\ all' = promiseAll(all, promisesOf(inv'), i)
    /\ UNCHANGED <<platform, op, localAppData, fs, files, pc, candidates, probed,
                   exec, appx, outcome>>
    /\ UNCHANGED iniVars

\* getAssetsLocations_MacOS/_Linux goes on after its await of Promise.all,
\* then checkExists.
ResumeLauncher ==
    /\ pc = "awaitAll" /\ all.state \in {"fulfilled", "rejected"}
    /\ IF all.state = "rejected"
       THEN /\ outcome' = Rejected(all.error)
            /\ UNCHANGED <<candidates, probed>>
       ELSE /\ candidates' = all.value
            /\ probed' = probed \cup Range(all.value)
            /\ outcome' = Settle(checkExists(fs, all.value))
    /\ pc' = "done"
    /\ UNCHANGED <<platform, op, localAppData, fs, files, exec, appx, inv, all>>
    /\ UNCHANGED iniVars

Next ==
    \/ GetDataLocations
    \/ GetAssetsLocations
    \/ ExecFileCallback
    \/ ResumeWindows
    \/ \E i \in DOMAIN inv : ReadIniSettles(i)
    \/ ResumeLauncher

Spec == Init /\ [][Next]_vars

----------------------------------------------------------------------------
(* The Metadata Reader on its own *)

MaxLines == 3

IniLines ==
    { <<>>,
      <<";", " comment">>,
      <<"[", "a", "]">>,
      <<"[", "b", "]">>,
      <<"versionCode", "=", "5">>,
      <<"versionName", "=", "foo">>,
      <<"versionName", "=">>,
      <<"k", "=", "v", "=", "w">> }

RECURSIVE JoinLines(_, _)
JoinLines(ls, i) ==
    IF i > Len(ls) THEN <<>>
    ELSE IF i = Len(ls) THEN ls[i]
    ELSE ls[i] \o <<NL>> \o JoinLines(ls, i + 1)

\* The texts of at most MaxLines lines, with and without a final newline.
IniTexts ==
    LET seqs == UNION {[1..n -> IniLines] : n \in 0..MaxLines}
    IN  {JoinLines(ls, 1) : ls \in seqs}
        \cup {JoinLines(ls, 1) \o <<NL>> : ls \in seqs}

IniInit ==
    /\ platform = "linux" /\ op = "none" /\ localAppData = EnvAbsent
    /\ fs = {} /\ files = [r \in {} |-> NoFile]
    /\ pc = "off" /\ candidates = NotComputed /\ probed = {}
    /\ exec = NoExec
    /\ appx = [promise |-> NoPromise, resolves |-> 0, rejects |-> 0]
    /\ inv = <<>> /\ all = NoPromise /\ outcome = Pending
    /\ iniText \in IniTexts
    /\ iniDoc = EmptyIni
    /\ iniPc = "start"

ParseIniText ==
    /\ iniPc = "start"
    /\ iniDoc' = parseIni(iniText)
    /\ iniPc' = "done"
    /\ UNCHANGED iniText
    /\ UNCHANGED callVars

IniNext == ParseIniText

IniSpec == IniInit /\ [][IniNext]_vars

----------------------------------------------------------------------------
(* What the specification expects of the Metadata Reader and of the        *)
(* Version Selector, written from its sections 4.3 and 4.4.                *)

HasToken(s, t) == \E i \in 1..Len(s) : s[i] = t

FirstIndex(s, t) == CHOOSE i \in 1..Len(s) : s[i] = t /\ \A j \in 1..(i - 1) : s[j] # t

\* A line is skipped, opens a section, or is split on its first "=".
ExpectedLine(st, line) ==
    IF Len(line) = 0 \/ line[1] = ";" THEN st
    ELSE IF line[1] = "[" /\ line[Len(line)] = "]"
    THEN [doc |-> [st.doc EXCEPT !.sections =
                       MapSet(st.doc.sections, SubSeq(line, 2, Len(line) - 1), EmptyMap)],
          cur |-> InSection(SubSeq(line, 2, Len(line) - 1))]
    ELSE LET key   == IF HasToken(line, "=")
                      THEN SubSeq(line, 1, FirstIndex(line, "=") - 1) ELSE line
             value == IF HasToken(line, "=")
                      THEN SubSeq(line, FirstIndex(line, "=") + 1, Len(line)) ELSE UNDEF
         IN  IF st.cur.global
             THEN [st EXCEPT !.doc.global = MapSet(st.doc.global, key, value)]
             ELSE [st EXCEPT !.doc.sections =
                       MapSet(st.doc.sections, st.cur.name,
                              MapSet(MapGet(st.doc.sections, st.cur.name), key, value))]

RECURSIVE ExpectedLines(_, _, _)
ExpectedLines(st, lines, i) ==
    IF i > Len(lines) THEN st
    ELSE ExpectedLines(ExpectedLine(st, lines[i]), lines, i + 1)

ExpectedIni(data) ==
    ExpectedLines([doc |-> EmptyIni, cur |-> InGlobal], Split(data, NL), 1).doc

\* A mapping without the order of its entries.
Entries(m) == {<<m[i].key, m[i].value>> : i \in 1..Len(m)}

SameDocument(d, e) ==
    /\ Entries(d.global) = Entries(e.global)
    /\ {<<d.sections[i].key, Entries(d.sections[i].value)>> : i \in 1..Len(d.sections)}
       = {<<e.sections[i].key, Entries(e.sections[i].value)>> : i \in 1..Len(e.sections)}

IsNumeric(v) == v # UNDEF /\ Len(v) > 0 /\ IsDigit(v[1])

\* The section has a numeric versionCode and a non-empty versionName.
ValidSection(section) ==
    /\ IsNumeric(MapGet(section, VERSION_CODE))
    /\ MapGet(section, VERSION_NAME) \notin {UNDEF, <<>>}

ValidSections(doc) ==
    {i \in 1..Len(doc.sections) : ValidSection(doc.sections[i].value)}

CodeOf(doc, i) == parseInt(MapGet(doc.sections[i].value, VERSION_CODE))

\* The earliest of the valid sections with the greatest versionCode.
ExpectedSection(doc) ==
    CHOOSE i \in ValidSections(doc) :
        \A j \in ValidSections(doc) :
            /\ CodeOf(doc, j) <= CodeOf(doc, i)
            /\ CodeOf(doc, j) = CodeOf(doc, i) => i <= j

ExpectedAssets(root, text) ==
    DirOf(root) \o <<SEP, "versions", SEP>>
    \o MapGet(ExpectedIni(text).sections[ExpectedSection(ExpectedIni(text))].value,
              VERSION_NAME)
    \o <<SEP, "assets">>

\* versions.ini of this root can be read and holds a valid version.
HasValidVersion(root) ==
    /\ files[DirOf(root)] # NoFile
    /\ ValidSections(ExpectedIni(files[DirOf(root)])) # {}

Settled(p) == p.state \in {"fulfilled", "rejected"}

LauncherCall == op = "assets" /\ platform \in {"darwin", "linux"}

----------------------------------------------------------------------------
(* The claims *)

Exists(p) == DirOf(p) \in fs

C2_ParseIni ==
    iniPc = "done" => SameDocument(iniDoc, ExpectedIni(iniText))

\* C3: for a root whose versions.ini is readable and holds a valid version,
\* getAssetsLocation_mcpelauncher returns <root>/versions/<versionName>/assets
\* of the earliest valid section with the greatest versionCode.
C3_LatestVersion ==
    \A i \in DOMAIN inv :
        (Settled(inv[i].promise) /\ HasValidVersion(inv[i].root))
        => inv[i].promise =
               Fulfilled(ExpectedAssets(inv[i].root, files[DirOf(inv[i].root)]))

\* C4: when the parsed document has no section with a numeric versionCode
\* and a non-empty versionName (or no section at all),
\* getAssetsLocation_mcpelauncher fails with Metadata Invalid, naming the
\* path of versions.ini; it returns no path and fails with no other error.
\* The first conjunct is about the documents the calls parse; the second
\* applies the selection (Locations.ts:213-228) to the documents of
\* VersionFiles as the format rules read them, sections included.
C4_MetadataInvalid ==
    /\ \A i \in DOMAIN inv :
          (/\ Settled(inv[i].promise)
           /\ files[DirOf(inv[i].root)] # NoFile
           /\ ValidSections(parseIni(files[DirOf(inv[i].root)])) = {})
          => /\ inv[i].promise.state = "rejected"
             /\ inv[i].promise.error.kind = "MetadataInvalid"
             /\ inv[i].promise.error.detail
                    = DirOf(inv[i].root) \o <<SEP, "versions/versions.ini">>
    /\ \A text \in VersionFiles, i \in DOMAIN inv :
          ValidSections(ExpectedIni(text)) = {}
          => LET r == versionResult(inv[i].root,
                                    latestVersion(validVersions(ExpectedIni(text))))
             IN  /\ r.state = "rejected"
                 /\ r.error.kind = "MetadataInvalid"
                 /\ r.error.detail = DirOf(inv[i].root) \o <<SEP, "versions/versions.ini">>

\* A versions.ini of comments only was read and the invocation failed with
\* Metadata Invalid.
C4_Witness ==
    \E i \in DOMAIN inv :
        /\ files[DirOf(inv[i].root)] = IniCommentsOnly
        /\ inv[i].promise.state = "rejected"
        /\ inv[i].promise.error.kind = "MetadataInvalid"

\* C5: when the invocation for any launcher root fails, Promise.all fails
\* with the error of a failed invocation, getAssetsLocations fails with
\* that error whatever the order in which the invocations end, and a
\* returned result means that every invocation succeeded.
C5_FailFast ==
    LauncherCall =>
        /\ (\E i \in DOMAIN inv : inv[i].promise.state = "rejected")
           => /\ all.state = "rejected"
              /\ \E i \in DOMAIN inv : inv[i].promise = Rejected(all.error)
              /\ all.error.kind \in {"MetadataUnreadable", "MetadataInvalid"}
              /\ pc = "done" => outcome = Rejected(all.error)
        /\ outcome.state = "fulfilled"
           => \A i \in DOMAIN inv : inv[i].promise.state = "fulfilled"

\* Two roots exist, the second one's invocation failed first and the call
\* has failed while the first one's is still reading.
C5_Witness ==
    /\ LauncherCall /\ pc = "done" /\ Len(inv) = 2
    /\ inv[1].promise.state = "pending"
    /\ inv[2].promise.state = "rejected"
    /\ outcome = Rejected(inv[2].promise.error)

Contains(s, t) == \E i \in 0..(Len(s) - Len(t)) : SubSeq(s, i + 1, i + Len(t)) = t

\* GetAppxPackage failed: execFile reported an error, or stderr is not
\* empty, or stdout is no JSON text.
AppxFailure ==
    /\ exec # NoExec
    /\ \/ exec.error # NoExecError
       \/ exec.stderr # <<>>
       \/ exec.stdout \in {OutEmpty, OutBanner}

\* The message of the error GetAppxPackage failed with.
UnderlyingMessage == appx.promise.error.detail

\* C6: every failure of GetAppxPackage rejects its promise exactly once
\* (with the execFile error, the stderr text or the JSON syntax error), and
\* getAssetsLocations fails with External Query Failed, whose message
\* contains that error's message; no path is returned.
C6_ExternalQueryFailed ==
    AppxFailure =>
        /\ appx.rejects = 1 /\ appx.resolves = 0
        /\ appx.promise.state = "rejected"
        /\ Len(UnderlyingMessage) > 0
        /\ exec.error # NoExecError => UnderlyingMessage = exec.error.detail
        /\ (exec.error = NoExecError /\ exec.stderr # <<>>)
           => UnderlyingMessage = exec.stderr
        /\ (exec.error = NoExecError /\ exec.stderr = <<>>)
           => appx.promise.error.kind = "SyntaxError"
        /\ pc = "done" =>
              /\ outcome.state = "rejected"
              /\ outcome.error.kind = "ExternalQueryFailed"
              /\ Contains(outcome.error.detail, UnderlyingMessage)

\* powershell printed a banner instead of JSON and the call failed with
\* External Query Failed.
C6_Witness ==
    /\ pc = "done" /\ exec # NoExec
    /\ exec.error = NoExecError /\ exec.stderr = <<>> /\ exec.stdout = OutBanner
    /\ outcome.error.kind = "ExternalQueryFailed"

Unsupported ==
    \/ op = "data" /\ platform \notin {"win32", "darwin", "linux", "android"}
    \/ op = "assets" /\ platform \notin {"win32", "darwin", "linux"}

SupportedList ==
    IF op = "data" THEN <<"win32 (Windows)", "darwin (MacOS)", "linux", "android">>
    ELSE <<"win32 (Windows)", "darwin (MacOS)", "linux">>

\* C7: on a platform outside the resolver's supported set the call fails in
\* its first step with Unsupported Platform, the message naming the platform
\* and listing the supported ones, with no candidate enumerated, no path
\* probed, no process started and no versions.ini read.
C7_UnsupportedPlatform ==
    (Unsupported /\ pc # "start") =>
        /\ pc = "done"
        /\ outcome.state = "rejected"
        /\ outcome.error.kind = "UnsupportedPlatform"
        /\ outcome.error.detail[1] = platform
        /\ Contains(outcome.error.detail, SupportedList)
        /\ candidates = NotComputed
        /\ probed = {}
        /\ appx.promise.state = "none" /\ exec = NoExec
        /\ inv = <<>> /\ all.state = "none"

\* The assets resolver was called on android, which only the data resolver
\* supports, where a launcher root exists.
C7_Witness ==
    /\ pc = "done" /\ op = "assets" /\ platform = "android"
    /\ fs # {}
    /\ outcome.error.kind = "UnsupportedPlatform"

\* The data paths as the documentation of getDataLocations lists them
\* (Locations.ts:23-35).
DocumentedDataPaths ==
    CASE platform = "win32" ->
            << localAppData \o
               <<SEP, "Packages/Microsoft.MinecraftUWP_8wekyb3d8bbwe/LocalState/games/com.mojang">> >>
      [] platform = "darwin" ->
            << <<"~", SEP, "Library/Application Support/mcpelauncher/games/com.mojang">> >>
      [] platform = "linux" ->
            << <<"~", SEP, ".local/share/mcpelauncher/games/com.mojang">>,
               <<"~", SEP, ".var/app/io.mrarm.mcpelauncher/data/mcpelauncher/games/com.mojang">> >>
      [] platform = "android" ->
            << <<SEP, "data/data/com.mojang.minecraftpe/games/com.mojang">>,
               <<SEP, "sdcard/games/com.mojang">> >>

\* C8: on a supported platform (on win32: with LOCALAPPDATA set), when some
\* candidate exists getDataLocations returns the candidates that exist, in
\* candidate order, and nothing else.
C8_DataLocations ==
    (/\ pc = "done" /\ op = "data" /\ ~Unsupported
     /\ platform = "win32" => localAppData \notin {EnvAbsent, <<>>}
     /\ \E i \in 1..Len(DocumentedDataPaths) : DocumentedDataPaths[i] \in fs)
    => outcome = Fulfilled(SelectSeq(DocumentedDataPaths, LAMBDA p : p \in fs))

\* On linux only the second candidate exists, and it alone is returned.
C8_Witness ==
    /\ pc = "done" /\ op = "data" /\ platform = "linux"
    /\ fs \cap Range(DocumentedDataPaths) = {DocumentedDataPaths[2]}
    /\ outcome = Fulfilled(<<DocumentedDataPaths[2]>>)

\* C9: when several launcher roots exist, each with a valid version whose
\* assets directory exists, getAssetsLocations returns the roots' asset
\* paths in the order of the root candidate list, after every invocation has
\* ended.
C9_RootOrder ==
    (/\ LauncherCall /\ pc = "done" /\ Len(inv) >= 2
     /\ \A i \in DOMAIN inv :
           /\ HasValidVersion(inv[i].root)
           /\ Exists(ExpectedAssets(inv[i].root, files[DirOf(inv[i].root)])))
    => /\ \A i \in DOMAIN inv : Settled(inv[i].promise)
       /\ outcome = Fulfilled([i \in DOMAIN inv |->
                         ExpectedAssets(inv[i].root, files[DirOf(inv[i].root)])])

\* C10: output that is JSON but no package descriptor (null, a number, an
\* array, an object without InstallLocation) makes GetAppxPackage reject, and
\* the call fail with External Query Failed.
C10_SchemaChecked ==
    (/\ exec # NoExec
     /\ exec.error = NoExecError /\ exec.stderr = <<>>
     /\ exec.stdout \in {OutNull, OutNumber, OutArray, OutNoLocation})
    => /\ appx.promise.state = "rejected"
       /\ pc = "done" => outcome.error.kind = "ExternalQueryFailed"

====
